---- MODULE Spec2Model ----
(***************************************************************************)
(* Orchestration and warm-pool subsystem of valheim-world-engine.          *)
(*                                                                         *)
(*   Spec / SpecConc : WarmEnginePoolManager                               *)
(*                     (etl/experimental/warm-pooling)                     *)
(*   SpecJob         : generate_seed / seed_status / simulate_pipeline     *)
(*                     (backend/app)                                       *)
(*   SpecRetry       : DockerOrchestrator.generate_world                   *)
(*                     (etl/experimental/bepinex-gen1/lib)                 *)
(*                                                                         *)
(* Every specification uses all the variables; the ones a specification    *)
(* does not touch keep their initial value.                                *)
(***************************************************************************)
EXTENDS Integers, Sequences, FiniteSets, TLC

VARIABLES
    mode,        \* "serial": pool calls run one after another; "conc": threads
    engines,     \* WarmEnginePoolManager.engines : engine id -> EngineMetadata
    containers,  \* the Docker daemon: container of engine id -> status
    th,          \* per caller: position in create_warm_engine / generate_world
    rq,          \* the RQ jobs: job id -> status, generation outcome
    seed_job,    \* the redis key vwe:seed_job:<seed_hash> (0 = unset)
    obs,         \* what seed_status last answered, and what it answered before
    orch,        \* DockerOrchestrator.generate_world: loop position and history
    clock,       \* time.time(), in seconds since the start
    files,       \* the seed directory: path -> whether it exists, and its mtime
    wg,          \* run_world_generation: position, locals, the container
    fq,          \* the last _files_stable query and its answer
    wcm          \* WarmContainerManager: tracking, metadata, its containers, the call

vars == <<mode, engines, containers, th, rq, seed_job, obs, orch, clock, files, wg, fq,
          wcm>>

poolVars == <<mode, engines, containers, th>>
jobVars == <<rq, seed_job, obs>>
genVars == <<clock, files, wg, fq>>

(***************************************************************************)
(* Bounds of the model.                                                    *)
(***************************************************************************)
\* number of distinct engine ids (engine-<n>) the callers can name
NumEngineIds == 3
\* WarmEngineConfig.max_warm_containers; the source sets 3
\* (warm_engine_pool_manager.py:86), the model runs a smaller pool
MaxWarmContainers == 2
\* WarmEngineConfig.max_jobs_per_engine; the source sets 10
\* (warm_engine_pool_manager.py:92), the model recycles sooner
MaxJobsPerEngine == 2

\* number of POST /seeds/generate requests made for the seed
MaxSubmissions == 2

EngineIds == 1..NumEngineIds
\* the serial specification uses caller 1 only; the concurrent one needs a
\* third thread to find every engine of a full pool busy
Callers == {1, 2, 3}
None == 0

Max(S) == CHOOSE x \in S : \A y \in S : y <= x
Min(S) == CHOOSE x \in S : \A y \in S : x <= y

(***************************************************************************)
(* WarmEnginePoolManager                                                   *)
(***************************************************************************)
EngineStates == {"STARTING", "READY", "GENERATING", "EXPORTING", "RESETTING", "ERROR"}

\* EngineMetadata(engine_id, state, last_used, jobs_processed=0,
\*                current_job_id=None, current_seed=None)
EngineMetadata(st, used) ==
    [state |-> st, last_used |-> used, jobs_processed |-> 0,
     current_job_id |-> None, current_seed |-> None]

\* own tells where the EngineMetadata object bound to the local `engine`
\* (generate_world, line 200) is: in the registry under eid, or detached from
\* it because self.engines[eid] was assigned a new object since
Registered == [detached |-> FALSE]

IdleThread == [pc |-> "idle", op |-> "none", eid |-> None, fail |-> "none",
               restarts |-> 0, gens |-> 0, own |-> Registered]

\* the parts of the state a specification leaves alone
\* no job was submitted, no status was asked for
JobsIdle ==
    /\ rq = << >>
    /\ seed_job = None
    /\ obs = [status |-> "none", job |-> None,
              seen |-> [j \in 1..MaxSubmissions |-> 0], seed_seen |-> 0,
              job_reverted |-> FALSE, seed_reverted |-> FALSE]

\* DockerOrchestrator.generate_world was not called
OrchIdle == orch = [pc |-> "off"]

\* plan["expected_outputs"]["raw"] (world_generator.py 67-71), the `.old`
\* backups _choose_present_files falls back to, and
\* plan["expected_outputs"]["extracted"] (72-75)
RawPaths == <<"db", "fwl">>
OldPaths == {"db.old", "fwl.old"}
ExtractedPaths == {"biomes.json", "heightmap.npy"}
Paths == {RawPaths[i] : i \in DOMAIN RawPaths} \cup OldPaths \cup ExtractedPaths

\* a path that does not exist
NoFile == [exists |-> FALSE, mtime |-> 0]

\* run_world_generation was not called, the seed directory is empty, nothing
\* was asked of _files_stable
\* no WarmContainerManager has been constructed
WarmIdle == wcm = [pc |-> "off"]

GenIdle ==
    /\ clock = 0
    /\ files = [p \in Paths |-> NoFile]
    /\ wg = [pc |-> "off"]
    /\ fq = [asked |-> FALSE]

\* no warm engine: an empty registry over an empty Docker daemon
PoolIdle ==
    /\ engines = << >>
    /\ containers = [e \in EngineIds |-> "absent"]
    /\ th = [c \in Callers |-> IdleThread]

\* Timestamps (datetime.utcnow().isoformat()) are only ever compared with each
\* other, so the model keeps their order: after every step the stamps in the
\* registry are renumbered 1..k in the same order.
Stamps(eng) == {eng[e].last_used : e \in DOMAIN eng}

\* datetime.utcnow(): later than every stamp taken so far
Now(eng) == 1 + Max(Stamps(eng) \cup {0})

Rank(v, S) == Cardinality({w \in S : w <= v})

Commit(eng) ==
    engines' = [e \in DOMAIN eng |->
                   [eng[e] EXCEPT !.last_used = Rank(@, Stamps(eng))]]

\* the serial specification has one caller, whose calls run one after another
Turn(c) == mode = "serial" => c = 1
AllIdle == \A c \in Callers : th[c].pc = "idle"

\* active_engines = [e for e in self.engines.values() if e.state != ERROR]
ActiveEngines(eng) == {e \in DOMAIN eng : eng[e].state # "ERROR"}
ReadyEngines(eng) == {e \in DOMAIN eng : eng[e].state = "READY"}

\* a selection that prefers the engine used last
MostRecentlyUsed(eng, S) ==
    CHOOSE e \in S : \A f \in S : eng[e].last_used >= eng[f].last_used

\* sorted(S, key=lambda e: e.last_used)[0]
LeastRecentlyUsed(eng, S) ==
    CHOOSE e \in S : \A f \in S : eng[e].last_used <= eng[f].last_used

\* caller d has the object registered as e bound to a local `engine`
\* (generate_world line 200, _reset_engine line 566)
HoldsReference(d, e) ==
    /\ th[d].eid = e
    /\ th[d].pc \in {"gw_mark", "gw_restart", "gw_wait", "gw_extract", "rs_reset"}
    /\ ~th[d].own.detached

\* the object the local `engine` of caller c is bound to
Engine(c) == IF th[c].own.detached THEN th[c].own.m ELSE engines[th[c].eid]

\* an assignment through `engine`: it reaches the registry only while the
\* object is still the registered one; a detached object's stamp is never
\* compared again
Store(c, m) ==
    IF th[c].own.detached
    THEN [eng |-> engines,
          own |-> [detached |-> TRUE, m |-> [m EXCEPT !.last_used = 0]]]
    ELSE [eng |-> [engines EXCEPT ![th[c].eid] = m], own |-> th[c].own]

\* where create_warm_engine's caller goes on when it returns an id
AfterCreate(op) == IF op = "create" THEN "returned" ELSE "gw_check"

\* the except clause of create_warm_engine:
\*   if engine_id in self.engines: self.engines[engine_id].state = ERROR
CreateFailed(eng, e) ==
    IF e \in DOMAIN eng THEN [eng EXCEPT ![e].state = "ERROR"] ELSE eng

\* a capacity test that lets one engine more in
OverCapacity(eng) == Cardinality(ActiveEngines(eng)) > MaxWarmContainers

\* if len(active_engines) >= self.engine_config.max_warm_containers (line 114)
AtCapacity(eng) == Cardinality(ActiveEngines(eng)) >= MaxWarmContainers

\* create_warm_engine, up to the capacity check (lines 108-119)
CreateEntry(c, e, op) ==
    IF AtCapacity(engines)
    THEN /\ th' = [th EXCEPT ![c] = [IdleThread EXCEPT
                      !.pc = AfterCreate(op), !.op = op,
                      !.eid = LeastRecentlyUsed(engines, ActiveEngines(engines))]]
         /\ UNCHANGED <<engines, containers>>
    ELSE /\ th' = [th EXCEPT ![c] = [IdleThread EXCEPT
                      !.pc = "cw_create", !.op = op, !.eid = e]]
         /\ UNCHANGED <<engines, containers>>

\* create_warm_engine(engine_id): the id is the argument, or engine-<seconds>
CW_Begin(c, e) ==
    /\ th[c].pc = "idle"
    /\ Turn(c)
    /\ mode = "serial"
    /\ CreateEntry(c, e, "create")
    /\ UNCHANGED <<mode, jobVars, orch, genVars, wcm>>

\* containers.create + container.start + registration (lines 123-154)
CW_DockerCreate(c) ==
    /\ th[c].pc = "cw_create"
    /\ Turn(c)
    /\ LET e == th[c].eid IN
       \/ \* both Docker calls succeed; the name must be free (409 otherwise)
          /\ containers[e] = "absent"
          /\ Commit([x \in DOMAIN engines \cup {e} |->
                        IF x = e THEN EngineMetadata("STARTING", Now(engines))
                        ELSE engines[x]])
          /\ containers' = [containers EXCEPT ![e] = "running"]
          /\ th' = [d \in Callers |->
                       IF d = c THEN [th[c] EXCEPT !.pc = "cw_wait"]
                       ELSE IF HoldsReference(d, e)
                            THEN [th[d] EXCEPT !.own =
                                     [detached |-> TRUE,
                                      m |-> [engines[e] EXCEPT !.last_used = 0]]]
                            ELSE th[d]]
       \/ \* created, but start() raises
          /\ containers[e] = "absent"
          /\ engines' = CreateFailed(engines, e)
          /\ containers' = [containers EXCEPT ![e] = "stopped"]
          /\ th' = [th EXCEPT ![c].pc = "raised", ![c].fail = "create"]
       \/ \* containers.create raises (name conflict, daemon error)
          /\ engines' = CreateFailed(engines, e)
          /\ UNCHANGED containers
          /\ th' = [th EXCEPT ![c].pc = "raised", ![c].fail = "create"]
    /\ UNCHANGED <<mode, jobVars, orch, genVars, wcm>>

\* _wait_for_engine_ready and what create_warm_engine does with it (156-169)
CW_Wait(c) ==
    /\ th[c].pc = "cw_wait"
    /\ Turn(c)
    /\ LET e == th[c].eid IN
       /\ e \in DOMAIN engines
       /\ \/ /\ containers[e] = "running"
             /\ engines' = [engines EXCEPT ![e].state = "READY"]
             /\ th' = [th EXCEPT ![c].pc = AfterCreate(th[c].op)]
          \/ /\ engines' = [engines EXCEPT ![e].state = "ERROR"]
             /\ th' = [th EXCEPT ![c].pc = "raised", ![c].fail = "create"]
    /\ UNCHANGED <<mode, containers, jobVars, orch, genVars, wcm>>

\* generate_world(..., engine_id=None): line 195, _get_available_engine
GW_BeginAuto(c) ==
    /\ th[c].pc = "idle"
    /\ Turn(c)
    /\ IF ReadyEngines(engines) # {}
       THEN /\ th' = [th EXCEPT ![c] = [IdleThread EXCEPT
                         !.pc = "gw_check", !.op = "generate",
                         !.eid = LeastRecentlyUsed(engines, ReadyEngines(engines))]]
            /\ UNCHANGED <<engines, containers>>
       ELSE \E e \in EngineIds : CreateEntry(c, e, "generate")
    /\ UNCHANGED <<mode, jobVars, orch, genVars, wcm>>

\* generate_world(..., engine_id=e)
GW_BeginExplicit(c, e) ==
    /\ th[c].pc = "idle"
    /\ Turn(c)
    /\ mode = "serial"
    /\ th' = [th EXCEPT ![c] = [IdleThread EXCEPT
                  !.pc = "gw_check", !.op = "generate", !.eid = e]]
    /\ UNCHANGED <<mode, engines, containers, jobVars, orch, genVars, wcm>>

\* a check that turns away only engines nobody could use
RejectedUnlessBusy(eng, e) ==
    e \notin DOMAIN eng \/ eng[e].state \notin {"READY", "GENERATING"}

\* engine_id not in self.engines (197), engine.state != READY (203)
Rejected(eng, e) == e \notin DOMAIN eng \/ eng[e].state # "READY"

\* lines 197-204: unknown engine -> ValueError, not READY -> RuntimeError
GW_Check(c) ==
    /\ th[c].pc = "gw_check"
    /\ Turn(c)
    /\ LET e == th[c].eid IN
       IF Rejected(engines, e)
       THEN th' = [th EXCEPT ![c].pc = "raised", ![c].fail = "check"]
       ELSE th' = [th EXCEPT ![c].pc = "gw_mark"]
    /\ UNCHANGED <<mode, engines, containers, jobVars, orch, genVars, wcm>>

\* lines 208-212
GW_Mark(c) ==
    /\ th[c].pc = "gw_mark"
    /\ Turn(c)
    /\ LET s == Store(c, [Engine(c) EXCEPT !.state = "GENERATING",
                                          !.current_job_id = c,
                                          !.current_seed = c,
                                          !.last_used = Now(engines)])
       IN
       /\ Commit(s.eng)
       /\ th' = [th EXCEPT ![c].pc = "gw_restart", ![c].own = s.own]
    /\ UNCHANGED <<mode, containers, jobVars, orch, genVars, wcm>>

\* the except clause of generate_world (273-277)
GenerateFailed(c, step) ==
    LET s == Store(c, [Engine(c) EXCEPT !.state = "ERROR"]) IN
    /\ engines' = s.eng
    /\ th' = [th EXCEPT ![c].pc = "raised", ![c].fail = step, ![c].own = s.own]

\* lines 216-232: containers.get, _restart_with_new_seed (stop, remove,
\* create, start); each Docker call can raise
GW_Restart(c) ==
    /\ th[c].pc = "gw_restart"
    /\ Turn(c)
    /\ LET e == th[c].eid
           failed == Store(c, [Engine(c) EXCEPT !.state = "ERROR"])
           exporting == Store(c, [Engine(c) EXCEPT !.state = "EXPORTING"])
       IN
       \/ \* containers.get raises (NotFound, daemon error)
          /\ GenerateFailed(c, "restart")
          /\ UNCHANGED containers
       \/ \* container.stop raises
          /\ containers[e] # "absent"
          /\ engines' = failed.eng
          /\ th' = [th EXCEPT ![c].pc = "raised", ![c].fail = "restart",
                              ![c].restarts = @ + 1, ![c].own = failed.own]
          /\ UNCHANGED containers
       \/ \* container.remove raises, or the new container's start raises
          /\ containers[e] # "absent"
          /\ engines' = failed.eng
          /\ th' = [th EXCEPT ![c].pc = "raised", ![c].fail = "restart",
                              ![c].restarts = @ + 1, ![c].own = failed.own]
          /\ containers' = [containers EXCEPT ![e] = "stopped"]
       \/ \* containers.create raises after the old container was removed
          /\ containers[e] # "absent"
          /\ th' = [th EXCEPT ![c].pc = "raised", ![c].fail = "restart",
                              ![c].restarts = @ + 1, ![c].own = failed.own]
          /\ engines' = failed.eng
          /\ containers' = [containers EXCEPT ![e] = "absent"]
       \/ \* restarted with the new seed: line 232
          /\ containers[e] # "absent"
          /\ engines' = exporting.eng
          /\ th' = [th EXCEPT ![c].pc = "gw_wait", ![c].restarts = @ + 1,
                              ![c].own = exporting.own]
          /\ containers' = [containers EXCEPT ![e] = "running"]
    /\ UNCHANGED <<mode, jobVars, orch, genVars, wcm>>

\* lines 233-236: _wait_for_generation_complete
GW_Wait(c) ==
    /\ th[c].pc = "gw_wait"
    /\ Turn(c)
    /\ \/ /\ containers[th[c].eid] = "running"
          /\ th' = [th EXCEPT ![c].pc = "gw_extract", ![c].gens = @ + 1]
          /\ UNCHANGED engines
       \/ LET s == Store(c, [Engine(c) EXCEPT !.state = "ERROR"]) IN
          /\ engines' = s.eng
          /\ th' = [th EXCEPT ![c].pc = "raised", ![c].fail = "wait",
                              ![c].gens = @ + 1, ![c].own = s.own]
    /\ UNCHANGED <<mode, containers, jobVars, orch, genVars, wcm>>

\* a recycling test that lets one job more through before the reset
MaxJobsExceeded(n) == n > MaxJobsPerEngine

\* if engine.jobs_processed >= max_jobs_per_engine (line 254)
MaxJobsReached(n) == n >= MaxJobsPerEngine

\* lines 248-258 on the engine object: count the job, clear it, and either
\* leave the state to _reset_engine or go back to READY
FinishJob(m) ==
    LET n == m.jobs_processed + 1 IN
    [m EXCEPT !.jobs_processed = n,
              !.current_job_id = None,
              !.current_seed = None,
              !.state = IF MaxJobsReached(n) THEN @ ELSE "READY"]

\* the first statements of _reset_engine(engine_id) (lines 564-568), on the
\* object registered under the id now
BeginReset(eng, e) ==
    IF e \in DOMAIN eng THEN [eng EXCEPT ![e].state = "RESETTING"] ELSE eng

\* lines 240-258: _extract_data_from_container, then the bookkeeping
GW_Extract(c) ==
    /\ th[c].pc = "gw_extract"
    /\ Turn(c)
    /\ LET e == th[c].eid
           m == FinishJob(Engine(c))
           s == Store(c, m)
       IN
       \/ /\ MaxJobsReached(m.jobs_processed)
          /\ engines' = BeginReset(s.eng, e)
          /\ th' = [th EXCEPT ![c].pc = "rs_reset", ![c].own = Registered]
       \/ /\ ~MaxJobsReached(m.jobs_processed)
          /\ engines' = s.eng
          /\ th' = [th EXCEPT ![c].pc = "returned", ![c].own = s.own]
       \/ GenerateFailed(c, "extract")
    /\ UNCHANGED <<mode, containers, jobVars, orch, genVars, wcm>>

\* the last statements of a successful _reset_engine (lines 583-593): the
\* count is cleared when the engine was restarted
ResetDone(m) ==
    [m EXCEPT !.jobs_processed = IF MaxJobsReached(@) THEN 0 ELSE @,
              !.state = "READY"]

\* what generate_world does with _reset_engine's result (line 256): nothing
AfterReset(ok) == "returned"

\* _reset_engine after line 568 (572-600), on the object it looked up at
\* line 566; the container is restarted when that object has reached
\* max_jobs_per_engine
RS_Reset(c) ==
    /\ th[c].pc = "rs_reset"
    /\ Turn(c)
    /\ LET e == th[c].eid
           restart == MaxJobsReached(Engine(c).jobs_processed)
           failed == Store(c, [Engine(c) EXCEPT !.state = "ERROR"])
           done == Store(c, ResetDone(Engine(c)))
       IN
       \/ \* containers.get or exec_run raises
          /\ engines' = failed.eng
          /\ th' = [th EXCEPT ![c].pc = AfterReset(FALSE), ![c].fail = "reset",
                              ![c].own = failed.own]
          /\ UNCHANGED containers
       \/ \* container.restart raises
          /\ restart
          /\ containers[e] # "absent"
          /\ engines' = failed.eng
          /\ th' = [th EXCEPT ![c].pc = AfterReset(FALSE), ![c].fail = "reset",
                              ![c].own = failed.own]
          /\ containers' = [containers EXCEPT ![e] = "stopped"]
       \/ \* restarted, _wait_for_engine_ready returns False
          /\ restart
          /\ containers[e] # "absent"
          /\ engines' = failed.eng
          /\ th' = [th EXCEPT ![c].pc = AfterReset(FALSE), ![c].fail = "reset",
                              ![c].own = failed.own]
          /\ containers' = [containers EXCEPT ![e] = "running"]
       \/ \* cleaned up and, after a restart, ready again
          /\ containers[e] # "absent"
          /\ engines' = done.eng
          /\ th' = [th EXCEPT ![c].pc = AfterReset(TRUE), ![c].own = done.own]
          /\ containers' = IF restart THEN [containers EXCEPT ![e] = "running"]
                           ELSE containers
    /\ UNCHANGED <<mode, jobVars, orch, genVars, wcm>>

\* the call is over: the caller has its result or its exception
Ack(c) ==
    /\ th[c].pc \in {"returned", "raised"}
    /\ Turn(c)
    /\ th' = [th EXCEPT ![c] = IdleThread]
    /\ UNCHANGED <<mode, engines, containers, jobVars, orch, genVars, wcm>>

\* shutdown_engine(e) (684-700)
ShutdownEngine(e) ==
    /\ mode = "serial"
    /\ AllIdle
    /\ e \in DOMAIN engines
    /\ containers[e] # "absent"
    /\ \/ \* stopped and removed
          /\ Commit([x \in DOMAIN engines \ {e} |-> engines[x]])
          /\ containers' = [containers EXCEPT ![e] = "absent"]
       \/ \* container.remove raises: the engine stays registered
          /\ containers' = [containers EXCEPT ![e] = "stopped"]
          /\ UNCHANGED engines
    /\ UNCHANGED <<mode, th, jobVars, orch, genVars, wcm>>

\* the vwe.created labels of the running containers, as an order: they were
\* stamped by earlier create_warm_engine calls, in whatever order those ran
CreatedLabels(running) ==
    {f \in [running -> 1..Cardinality(running)] :
        \A a, b \in running : a # b => f[a] # f[b]}

\* _discover_existing_engines (602-623): every running labelled container
\* becomes a READY engine, last_used = its vwe.created label
Discovered(running, created) ==
    [e \in running |-> EngineMetadata("READY", created[e])]

\* WarmEnginePoolManager(): a new manager over the same Docker daemon
Construct ==
    /\ mode = "serial"
    /\ AllIdle
    /\ LET running == {e \in EngineIds : containers[e] = "running"} IN
       \/ \E created \in CreatedLabels(running) :
             engines' = Discovered(running, created)
       \/ \* containers.list raises: nothing is discovered
          engines' = << >>
    /\ UNCHANGED <<mode, containers, th, jobVars, orch, genVars, wcm>>

(***************************************************************************)
(* Backend: generate_seed, seed_status, the RQ worker, simulate_pipeline    *)
(* (one seed hash)                                                         *)
(***************************************************************************)
\* RQ's job statuses; generate_seed answers "pending" for the first
TerminalStatuses == {"finished", "failed"}
StatusRank(s) ==
    CASE s = "queued" -> 1
      [] s = "started" -> 2
      [] OTHER -> 3

\* job.meta["generation_status"] before Stage 1 has set it
NoGeneration == [kind |-> "none", log_match |-> FALSE, raw_present |-> FALSE,
                 extracted_present |-> FALSE, timed_out |-> FALSE]

\* the dict run_world_generation returns (world_generator.py 297-306)
GenStatus(lm, raw, ext, to) ==
    [kind |-> "returned", log_match |-> lm, raw_present |-> raw,
     extracted_present |-> ext, timed_out |-> to]

\* the breadcrumb simulate_pipeline writes in its except clauses
Breadcrumb(kind, to) ==
    [kind |-> kind, log_match |-> FALSE, raw_present |-> FALSE,
     extracted_present |-> FALSE, timed_out |-> to]

\* a queue that files the job of a seed under one fixed id, replacing the
\* earlier job of that id
SeedJobId(jobs) == 1

\* q.enqueue(simulate_pipeline, ...): RQ creates a new job with a fresh id
NewJobId(jobs) == Cardinality(DOMAIN jobs) + 1

\* POST /seeds/generate (seeds.py 27-36)
GenerateSeed ==
    /\ Cardinality(DOMAIN rq) < MaxSubmissions
    /\ LET j == NewJobId(rq) IN
       /\ rq' = [x \in DOMAIN rq \cup {j} |->
                    IF x = j
                    THEN [status |-> "queued", stage |-> "none",
                          gen |-> NoGeneration]
                    ELSE rq[x]]
       /\ seed_job' = j
    /\ UNCHANGED <<poolVars, obs, orch, genVars, wcm>>

\* worker.py: one Worker on queue "vwe" takes the oldest queued job when it
\* runs no other
WorkerDequeue ==
    /\ \A j \in DOMAIN rq : rq[j].status # "started"
    /\ \E j \in DOMAIN rq :
        /\ rq[j].status = "queued"
        /\ \A k \in DOMAIN rq : rq[k].status = "queued" => j <= k
        /\ rq' = [rq EXCEPT ![j].status = "started", ![j].stage = "stage1"]
    /\ UNCHANGED <<poolVars, seed_job, obs, orch, genVars, wcm>>

\* simulate_pipeline, Stage 1 (tasks.py 19-62)
PipelineStage1(j) ==
    /\ j \in DOMAIN rq
    /\ rq[j].status = "started"
    /\ rq[j].stage = "stage1"
    /\ \/ \* run_world_generation returns its status dict
          \E lm, raw, ext, to \in BOOLEAN :
             rq' = [rq EXCEPT ![j].gen = GenStatus(lm, raw, ext, to),
                              ![j].stage = "stages"]
       \/ \* plan_world_generation or run_world_generation raises: swallowed
          rq' = [rq EXCEPT ![j].gen = Breadcrumb("exception", FALSE),
                           ![j].stage = "stages"]
       \/ \* JobTimeoutException: recorded and re-raised, RQ fails the job
          rq' = [rq EXCEPT ![j].gen = Breadcrumb("job_timeout", TRUE),
                           ![j].stage = "raised",
                           ![j].status = "failed"]
    /\ UNCHANGED <<poolVars, seed_job, obs, orch, genVars, wcm>>

\* the status simulate_pipeline's normal return gives the job (tasks.py 64-72):
\* the five stages are stepped through and "completed" is returned, whatever
\* Stage 1 left in generation_status
PipelineResult(gen) == "finished"

\* simulate_pipeline, the remaining stages and the return (tasks.py 64-72)
PipelineStages(j) ==
    /\ j \in DOMAIN rq
    /\ rq[j].status = "started"
    /\ rq[j].stage = "stages"
    /\ \/ rq' = [rq EXCEPT ![j].stage = "returned",
                           ![j].status = PipelineResult(rq[j].gen)]
       \/ \* JobTimeoutException during the stage loop
          rq' = [rq EXCEPT ![j].stage = "raised", ![j].status = "failed"]
    /\ UNCHANGED <<poolVars, seed_job, obs, orch, genVars, wcm>>

\* GET /seeds/{seed_hash}/status (seeds.py 39-63). The history fields record
\* how far along (StatusRank) earlier answers were, per job id and for the
\* seed hash, and whether an answer ever fell behind an earlier one.
SeedStatus ==
    /\ seed_job # None
    /\ LET j == seed_job
           s == rq[j].status IN
       obs' = [status |-> s,
               job |-> j,
               seen |-> [obs.seen EXCEPT ![j] = Max({@, StatusRank(s)})],
               seed_seen |-> Max({obs.seed_seen, StatusRank(s)}),
               job_reverted |-> \/ obs.job_reverted
                                \/ StatusRank(s) < obs.seen[j],
               seed_reverted |-> \/ obs.seed_reverted
                                 \/ StatusRank(s) < obs.seed_seen]
    /\ UNCHANGED <<poolVars, rq, seed_job, orch, genVars, wcm>>

InitJob ==
    /\ mode = "serial"
    /\ PoolIdle
    /\ JobsIdle
    /\ OrchIdle
    /\ GenIdle
    /\ WarmIdle

NextJob ==
    \/ GenerateSeed
    \/ WorkerDequeue
    \/ \E j \in 1..MaxSubmissions : PipelineStage1(j)
    \/ \E j \in 1..MaxSubmissions : PipelineStages(j)
    \/ SeedStatus

SpecJob == InitJob /\ [][NextJob]_vars

\* C8 (SpecJob), as amended: the statuses seed_status reports under one job
\* id follow queued -> started -> finished | failed and never go back.
C8_JobStatusNeverReverts == ~obs.job_reverted

\* C8 witness: a job was reported in a terminal status, and the latest answer
\* is for a newer job of the same seed that is still queued or started.
C8_Witness ==
    /\ \E j \in 1..MaxSubmissions : obs.seen[j] = StatusRank("finished")
    /\ obs.status \in {"queued", "started"}
    /\ obs.job # None
    /\ obs.seen[obs.job] < StatusRank("finished")

\* C8 as stated: the statuses seed_status reports for the seed hash follow
\* pending -> running -> terminal and never go back.
C8_SeedStatusNeverReverts == ~obs.seed_reverted

\* C9 (SpecJob): a job ends finished (simulate_pipeline returned "completed")
\* only if run_world_generation returned, not timed out, with the raw and the
\* extracted artifacts present.
C9_CompletedOnlyIfGenerated ==
    \A j \in DOMAIN rq :
        rq[j].status = "finished" =>
            /\ rq[j].gen.kind = "returned"
            /\ ~rq[j].gen.timed_out
            /\ rq[j].gen.raw_present
            /\ rq[j].gen.extracted_present

(***************************************************************************)
(* Backend: world_generator.py, the seed directory and _files_stable       *)
(***************************************************************************)
\* the last second the clock is followed to
MaxTime == 3

\* plan["readiness"]["stable_seconds"] = settings.stage1_stable_sec; the
\* source's default is 10 (config.py:13), the model waits less
StableSeconds == 2

\* plan["readiness"]["timeout_seconds"] = settings.stage1_timeout_sec; the
\* source's default is 900 (config.py:12)
TimeoutSeconds == 2

\* time passes; it is followed until the monitoring loop of
\* run_world_generation, the last reader of the clock, has ended
Tick ==
    /\ clock < MaxTime
    /\ wg.pc \in {"off", "init", "stream"}
    /\ clock' = clock + 1
    /\ UNCHANGED <<poolVars, jobVars, orch, files, wg, fq, wcm>>

\* alt = p + ".old"
Old(p) == IF p = "db" THEN "db.old" ELSE "fwl.old"

\* the loop of _files_stable (lines 92-96): False at the first missing path,
\* else the running maximum of the mtimes, from 0.0
RECURSIVE ScanMtimes(_, _, _)
ScanMtimes(paths, i, latest_mtime) ==
    IF i > Len(paths) THEN [complete |-> TRUE, latest_mtime |-> latest_mtime]
    ELSE IF ~files[paths[i]].exists
         THEN [complete |-> FALSE, latest_mtime |-> latest_mtime]
         ELSE ScanMtimes(paths, i + 1, Max({latest_mtime, files[paths[i]].mtime}))

\* a test that asks for more than stable_seconds of rest
FilesStableStrict(paths, stable_seconds) ==
    LET r == ScanMtimes(paths, 1, 0) IN
    r.complete /\ (clock - r.latest_mtime) > stable_seconds

\* _files_stable(paths, stable_seconds) (lines 91-97)
FilesStable(paths, stable_seconds) ==
    LET r == ScanMtimes(paths, 1, 0) IN
    r.complete /\ (clock - r.latest_mtime) >= stable_seconds

\* a resolution that takes the backup along with the base file
RECURSIVE ChooseBoth(_, _)
ChooseBoth(base_paths, i) ==
    IF i > Len(base_paths) THEN << >>
    ELSE LET p == base_paths[i]
             rest == ChooseBoth(base_paths, i + 1) IN
         (IF files[p].exists THEN <<p>> ELSE << >>)
             \o (IF files[Old(p)].exists THEN <<Old(p)>> ELSE << >>) \o rest

\* _choose_present_files(base_paths) (lines 100-110)
RECURSIVE ChooseFrom(_, _)
ChooseFrom(base_paths, i) ==
    IF i > Len(base_paths) THEN << >>
    ELSE LET p == base_paths[i]
             rest == ChooseFrom(base_paths, i + 1) IN
         IF files[p].exists THEN <<p>> \o rest
         ELSE IF files[Old(p)].exists THEN <<Old(p)>> \o rest
         ELSE rest

ChoosePresentFiles(base_paths) == ChooseFrom(base_paths, 1)

\* the path lists _files_stable is asked about: up to two distinct raw paths
\* or backups
QueryLists ==
    LET S == {RawPaths[i] : i \in DOMAIN RawPaths} \cup OldPaths IN
    {<< >>} \cup {<<p>> : p \in S}
            \cup {<<pq[1], pq[2]>> : pq \in {x \in S \X S : x[1] # x[2]}}

\* a file of the seed directory is written now
FS_Write(p) ==
    /\ wg.pc = "off"
    /\ files' = [files EXCEPT ![p] = [exists |-> TRUE, mtime |-> clock]]
    /\ UNCHANGED <<poolVars, jobVars, orch, clock, wg, fq, wcm>>

\* a file of the seed directory is removed
FS_Remove(p) ==
    /\ wg.pc = "off"
    /\ files[p].exists
    /\ files' = [files EXCEPT ![p] = NoFile]
    /\ UNCHANGED <<poolVars, jobVars, orch, clock, wg, fq, wcm>>

\* one call _files_stable(paths, s)
FS_Query(paths, s) ==
    /\ wg.pc = "off"
    /\ fq' = [asked |-> TRUE, paths |-> paths, s |-> s,
              result |-> FilesStable(paths, s)]
    /\ UNCHANGED <<poolVars, jobVars, orch, clock, files, wg, wcm>>

InitStable ==
    /\ mode = "serial"
    /\ PoolIdle
    /\ JobsIdle
    /\ OrchIdle
    /\ GenIdle
    /\ WarmIdle

NextStable ==
    \/ Tick
    \/ \E p \in {RawPaths[i] : i \in DOMAIN RawPaths} \cup OldPaths : FS_Write(p)
    \/ \E p \in {RawPaths[i] : i \in DOMAIN RawPaths} \cup OldPaths : FS_Remove(p)
    \/ \E paths \in QueryLists, s \in 1..StableSeconds : FS_Query(paths, s)

SpecStable == InitStable /\ [][NextStable]_vars

\* C20 (SpecStable): every answer of _files_stable(paths, s) about at least
\* one path is true exactly when every path exists and the time since the
\* latest modification among them is at least s.
C20_FilesStableExactly ==
    [][fq' # fq =>
        LET q == fq' IN
        Len(q.paths) > 0 =>
            (q.result <=>
                /\ \A i \in 1..Len(q.paths) : files[q.paths[i]].exists
                /\ clock - Max({files[q.paths[i]].mtime : i \in 1..Len(q.paths)}) >= q.s)]_vars

\* C20 witness: two files, one of them modified after the start, were found
\* stable once s seconds had passed since that modification.
C20_Witness ==
    /\ fq.asked
    /\ fq.result
    /\ Len(fq.paths) = 2
    /\ \A i \in 1..2 : files[fq.paths[i]].exists
    /\ \E i \in 1..2 : files[fq.paths[i]].mtime > 0
    /\ clock - Max({files[fq.paths[i]].mtime : i \in 1..2}) >= fq.s

(***************************************************************************)
(* Backend: world_generator.py, run_world_generation                       *)
(***************************************************************************)
\* the most complete lines one chunk of the log stream carries
MaxChunkLines == 2

\* what a complete log line is to the monitoring loop: "pattern" matches one
\* of LOG_PATTERNS (lines 14-20), "generated" contains "Generated" or
\* "Failed to place all" (line 240), "plain" neither
LineKinds == {"plain", "pattern", "generated"}

\* the complete lines of one chunk, in order; a chunk may complete no line
Chunks == UNION {[1..n -> LineKinds] : n \in 0..MaxChunkLines}

\* the status returned by the two early returns (lines 146-153, 186-193)
FailedStatus ==
    [log_match |-> FALSE, raw_present |-> FALSE,
     extracted_present |-> FALSE, timed_out |-> FALSE]

\* the SteamCMD lines the progress heuristic reacts to (lines 219-232): a
\* percentage, "Validating", "Success! App ... installed"
ProgressKinds == {"plain", "pct3", "pct50", "validating", "installed"}

ProgressChunks == UNION {[1..n -> ProgressKinds] : n \in 0..MaxChunkLines}

\* int(m.group(1)) of a percentage line
Pct(line) == IF line = "pct3" THEN 3 ELSE 50

\* what a line is to the pattern search and the completion heuristic
Class(line) == IF line \in LineKinds THEN line ELSE "plain"

\* job.meta["progress"] after one complete line (lines 217-232)
ProgressAfter(line, progress) ==
    IF line \in {"pct3", "pct50"} THEN Max({5, Min({90, Pct(line)})})
    ELSE IF line = "validating" THEN Max({progress, 75})
    ELSE IF line = "installed" THEN Max({progress, 90})
    ELSE progress

\* the inner while loop (lines 212-232) over the complete lines of a chunk;
\* fell records an update that lowered the progress
RECURSIVE WriteLines(_, _, _)
WriteLines(lines, i, w) ==
    IF i > Len(lines) THEN w
    ELSE LET after == ProgressAfter(lines[i], w.progress) IN
         WriteLines(lines, i + 1,
                    [w EXCEPT !.progress = after,
                              !.fell = @ \/ after < w.progress])

\* the locals of run_world_generation at entry; line is unbound until the
\* first complete line, lf until the log file is opened; progress is
\* job.meta["progress"], set to 10 by simulate_pipeline before the call;
\* seen, matched_at, ended_at, stop_issued and fell record what happened
WGEntry ==
    [pc |-> "init", container |-> "none", deadline |-> 0,
     log_match |-> FALSE, timed_out |-> FALSE, line |-> "unbound",
     lf |-> "unbound", end |-> "none", seen |-> {}, matched_at |-> -1,
     ended_at |-> 0, stop_issued |-> FALSE, status |-> FailedStatus,
     progress |-> 10, fell |-> FALSE]

\* any(".db" in p for p in present), any(".fwl" in p for p in present)
HasDb(present) == \E i \in 1..Len(present) : present[i] \in {"db", "db.old"}

HasFwl(present) == \E i \in 1..Len(present) : present[i] \in {"fwl", "fwl.old"}

\* lines 143-195: docker.from_env() or containers.run() fails and the
\* all-false status is returned, or the container runs and the deadline is set
WG_Start ==
    /\ wg.pc = "init"
    /\ \/ wg' = [wg EXCEPT !.pc = "returned", !.end = "docker_error"]
       \/ wg' = [wg EXCEPT !.pc = "stream", !.container = "running",
                           !.lf = "open", !.deadline = clock + TimeoutSeconds]
    /\ UNCHANGED <<poolVars, jobVars, orch, clock, files, fq, wcm>>

\* the running server writes a world file or an extracted file; of an
\* extracted file only the existence is ever read
WG_FileWrite(p) ==
    /\ wg.pc # "off"
    /\ wg.container = "running"
    /\ files' = [files EXCEPT ![p] =
                    [exists |-> TRUE,
                     mtime |-> IF p \in ExtractedPaths THEN 0 ELSE clock]]
    /\ UNCHANGED <<poolVars, jobVars, orch, clock, wg, fq, wcm>>

\* the container exits by itself
WG_ContainerExit ==
    /\ wg.pc # "off"
    /\ wg.container = "running"
    /\ wg' = [wg EXCEPT !.container = "exited"]
    /\ UNCHANGED <<poolVars, jobVars, orch, clock, files, fq, wcm>>

\* leaving the for loop and the with block (lines 208-273)
LeaveLoop(w, how) ==
    [w EXCEPT !.pc = "finally", !.lf = "closed", !.end = how, !.ended_at = clock]

\* lines 256-269 of the loop body: the files are present and stable, or the
\* deadline has passed, or the loop waits for the next chunk
CheckFiles(w) ==
    LET present == ChoosePresentFiles(RawPaths) IN
    IF HasDb(present) /\ HasFwl(present) /\ FilesStable(present, StableSeconds)
    THEN LeaveLoop([w EXCEPT !.progress = Max({@, 95})], "ready")
    ELSE IF clock > w.deadline
         THEN LeaveLoop([w EXCEPT !.timed_out = TRUE], "timeout")
         ELSE w

\* one iteration of "for chunk in log_stream" (lines 209-269): the complete
\* lines are written, then the LAST of them (or the one left from an earlier
\* chunk) is matched against the patterns and the completion heuristic, then
\* the files and the deadline are checked
WG_Chunk(lines) ==
    /\ wg.pc = "stream"
    /\ wg.container = "running"
    /\ LET line == IF Len(lines) > 0 THEN lines[Len(lines)] ELSE wg.line
           w0 == [WriteLines(lines, 1, wg) EXCEPT
                     !.line = line,
                     !.seen = @ \cup {Class(lines[i]) : i \in 1..Len(lines)}]
       IN
       IF line = "unbound"
       THEN \* line 235 reads a name that was never bound
            wg' = LeaveLoop(w0, "exception")
       ELSE LET w1 == [w0 EXCEPT !.log_match = @ \/ line = "pattern",
                                 !.matched_at =
                                     IF ~w0.log_match /\ line = "pattern"
                                     THEN clock ELSE @]
            IN
            IF line = "generated"
            THEN \/ \* container.stop(timeout=10) returns: break
                    wg' = LeaveLoop([w1 EXCEPT !.container = "exited",
                                               !.stop_issued = TRUE], "heuristic")
                 \/ \* it raises: the loop body goes on
                    wg' = CheckFiles([w1 EXCEPT !.stop_issued = TRUE])
            ELSE wg' = CheckFiles(w1)
    /\ UNCHANGED <<poolVars, jobVars, orch, clock, files, fq, wcm>>

\* the stream of an exited container ends and with it the for loop
WG_StreamEnd ==
    /\ wg.pc = "stream"
    /\ wg.container = "exited"
    /\ wg' = LeaveLoop(wg, "stream_end")
    /\ UNCHANGED <<poolVars, jobVars, orch, clock, files, fq, wcm>>

\* reading the stream raises
WG_StreamError ==
    /\ wg.pc = "stream"
    /\ wg' = LeaveLoop(wg, "exception")
    /\ UNCHANGED <<poolVars, jobVars, orch, clock, files, fq, wcm>>

\* lines 276-279: the forced stop is reached when the status attribute says
\* running and the write to lf before it does not raise
ForcedStop(status, lf) == status = "running" /\ lf = "open"

\* the finally block (lines 274-281); container.status is the attribute the
\* docker client cached or the container's present state; every exception is
\* swallowed; an exception of the try block goes on to the caller
WG_Finally ==
    /\ wg.pc = "finally"
    /\ \E status \in {"created", wg.container} :
        wg' = [wg EXCEPT
                  !.pc = IF wg.end = "exception" THEN "raised" ELSE "post",
                  !.stop_issued = @ \/ ForcedStop(status, wg.lf),
                  !.container = IF ForcedStop(status, wg.lf) THEN "exited" ELSE @]
    /\ UNCHANGED <<poolVars, jobVars, orch, clock, files, fq, wcm>>

\* lines 283-314: the status is built from what is on disk now
WG_Post ==
    /\ wg.pc = "post"
    /\ LET present == ChoosePresentFiles(RawPaths) IN
       wg' = [wg EXCEPT
                 !.pc = "returned",
                 !.status = [log_match |-> wg.log_match,
                             raw_present |-> Len(present) = Len(RawPaths),
                             extracted_present |->
                                 \A p \in ExtractedPaths : files[p].exists,
                             timed_out |-> wg.timed_out]]
    /\ UNCHANGED <<poolVars, jobVars, orch, clock, files, fq, wcm>>

\* a seed directory as an earlier run may have left it
InitGen ==
    /\ mode = "serial"
    /\ PoolIdle
    /\ JobsIdle
    /\ OrchIdle
    /\ clock = 0
    /\ files \in [Paths -> {NoFile, [exists |-> TRUE, mtime |-> 0]}]
    /\ wg = WGEntry
    /\ fq = [asked |-> FALSE]
    /\ WarmIdle

NextGen ==
    \/ Tick
    \/ WG_Start
    \/ \E p \in {RawPaths[i] : i \in DOMAIN RawPaths} \cup ExtractedPaths : WG_FileWrite(p)
    \/ WG_ContainerExit
    \/ \E lines \in Chunks : WG_Chunk(lines)
    \/ WG_StreamEnd
    \/ WG_StreamError
    \/ WG_Finally
    \/ WG_Post

SpecGen == InitGen /\ [][NextGen]_vars

\* the same call on a stream of SteamCMD progress lines
NextProgress ==
    \/ Tick
    \/ WG_Start
    \/ \E p \in {RawPaths[i] : i \in DOMAIN RawPaths} \cup ExtractedPaths : WG_FileWrite(p)
    \/ WG_ContainerExit
    \/ \E lines \in ProgressChunks : WG_Chunk(lines)
    \/ WG_StreamEnd
    \/ WG_StreamError
    \/ WG_Finally
    \/ WG_Post

SpecProgress == InitGen /\ [][NextProgress]_vars

\* C23 (SpecProgress): within one call no update of job.meta["progress"]
\* lowers the value.
C23_ProgressNeverDecreases == wg.pc # "off" => ~wg.fell

\* C13 (SpecGen): monitoring does not go on after a readiness pattern has
\* matched before the deadline, and a returned status has timed_out = True
\* only when no pattern had matched before the deadline.
C13_ReadyBeforeTimedOut ==
    LET matched == wg.log_match /\ wg.matched_at <= wg.deadline IN
    /\ wg.pc = "stream" => ~matched
    /\ (wg.pc = "returned" /\ wg.status.timed_out) => ~matched

\* the base path lists _choose_present_files is examined on
BaseLists == {<< >>, <<"db">>, <<"fwl">>, <<"db", "fwl">>, <<"fwl", "db">>}

\* C21 (SpecGen): for every list of base paths and every content of the seed
\* directory, _choose_present_files holds p exactly when p exists and
\* p + ".old" exactly when p does not exist and the backup does, never both,
\* in the order of the input, and is as long as the input exactly when every
\* base path has one of its two variants present.
C21_PreferBaseElseBackup ==
    \A base \in BaseLists :
        LET chosen == ChoosePresentFiles(base)
            Has(q) == \E i \in 1..Len(chosen) : chosen[i] = q
            Origin(q) == IF q \in OldPaths
                         THEN CHOOSE p \in {"db", "fwl"} : Old(p) = q ELSE q
            Pos(p) == CHOOSE j \in 1..Len(base) : base[j] = p
        IN
        /\ \A j \in 1..Len(base) :
              /\ Has(base[j]) <=> files[base[j]].exists
              /\ Has(Old(base[j])) <=>
                    (~files[base[j]].exists /\ files[Old(base[j])].exists)
              /\ ~(Has(base[j]) /\ Has(Old(base[j])))
        /\ \A i \in 1..Len(chosen) :
              \E j \in 1..Len(base) : Origin(chosen[i]) = base[j]
        /\ \A i, k \in 1..Len(chosen) :
              i < k => Pos(Origin(chosen[i])) < Pos(Origin(chosen[k]))
        /\ (Len(chosen) = Len(base)) <=>
              \A j \in 1..Len(base) :
                  files[base[j]].exists \/ files[Old(base[j])].exists

\* C21 witness: a call returned raw_present = True with the .db taken from
\* its backup and the .fwl from the base file.
C21_Witness ==
    /\ wg.pc = "returned"
    /\ wg.status.raw_present
    /\ ChoosePresentFiles(RawPaths) = <<"db.old", "fwl">>

\* C22 (SpecGen): the returned log_match is true exactly when one of the
\* complete lines read from the stream matched one of LOG_PATTERNS.
C22_EveryLineMatched ==
    (wg.pc = "returned" /\ wg.end # "docker_error")
        => (wg.status.log_match <=> "pattern" \in wg.seen)

\* C14 (SpecGen): a run in which no line matched a pattern or the heuristic
\* and no world file ever appeared, and whose monitoring ended after the
\* deadline, returns timed_out = True.
C14_TimesOutWithoutArtifacts ==
    (/\ wg.pc = "returned"
     /\ wg.end # "docker_error"
     /\ wg.seen \subseteq {"plain"}
     /\ ChoosePresentFiles(RawPaths) = << >>
     /\ wg.ended_at > wg.deadline)
        => wg.status.timed_out

\* C15 (SpecGen): no call ends, by return or by exception, with its
\* container running and no stop issued to it.
C15_StopIssuedBeforeReturn ==
    (wg.pc \in {"returned", "raised"} /\ wg.container = "running")
        => wg.stop_issued

(***************************************************************************)
(* global/docker/warm_container_manager.py: WarmContainerManager, for one  *)
(* configuration                                                           *)
(***************************************************************************)
\* the container names one run of the manager creates
MaxWarmNames == 3

\* WarmContainerConfig.max_warm_containers of "valheim-bepinex"
MaxTracked == 2

\* WarmContainerConfig.container_ttl_minutes; the source sets 45 for
\* "valheim-bepinex" (line 43), the model expires sooner; clock counts minutes
ContainerTtl == 1

\* the depth at which the interpreter ends a recursion with RecursionError;
\* CPython's default limit is 1000 frames
MaxDepth == 5

WarmNames == 1..MaxWarmNames

NoContainer == [status |-> "absent", created |-> -1]
NoMeta == [present |-> FALSE, created_at |-> 0, last_used |-> 0]

\* __init__ (lines 33-65): nothing tracked; made counts the containers created,
\* each under a name of its own
WarmConstructed ==
    wcm = [pc |-> "idle", tracked |-> << >>,
           meta |-> [n \in WarmNames |-> NoMeta],
           docker |-> [n \in WarmNames |-> NoContainer],
           made |-> 0, depth |-> 0, entry |-> << >>, cycled |-> FALSE,
           ret |-> None]

\* list.remove(name)
RemoveName(list, name) ==
    SelectSeq(list, LAMBDA x : x # name)

\* the for loop of get_available_container (lines 138-147) over the list it
\* removes from: after a removal the iterator's index still advances
RECURSIVE ScanTracked(_, _, _, _)
ScanTracked(list, i, meta, available) ==
    IF i > Len(list)
    THEN [tracked |-> list, meta |-> meta, available |-> available]
    ELSE LET name == list[i] IN
         IF wcm.docker[name].status = "absent"
         THEN ScanTracked(RemoveName(list, name), i + 1,
                          [meta EXCEPT ![name] = NoMeta], available)
         ELSE IF wcm.docker[name].status = "running"
              THEN ScanTracked(list, i + 1, meta, Append(available, name))
              ELSE ScanTracked(list, i + 1, meta, available)

\* available_containers.sort(key=Created)[0]: a stable sort, so the first of
\* the oldest
Oldest(available) ==
    LET first == CHOOSE i \in 1..Len(available) :
                    /\ \A j \in 1..Len(available) :
                          wcm.docker[available[i]].created
                              <= wcm.docker[available[j]].created
                    /\ \A j \in 1..(i - 1) :
                          wcm.docker[available[j]].created
                              > wcm.docker[available[i]].created
    IN available[first]

\* a call from outside: create_warm_container(config_name) or
\* get_available_container(config_name)
WCM_Call(op) ==
    /\ wcm.pc \in {"idle", "returned", "raised"}
    /\ wcm' = [wcm EXCEPT !.pc = op, !.depth = 1, !.entry = << >>,
                          !.cycled = FALSE, !.ret = None]
    /\ UNCHANGED <<poolVars, jobVars, orch, genVars>>

\* one method calls the other (lines 80, 134, 150); the interpreter ends a
\* recursion that has reached its limit
Recurse(w, op) ==
    IF w.depth >= MaxDepth
    THEN [w EXCEPT !.pc = "raised", !.ret = None]
    ELSE [w EXCEPT !.pc = op, !.depth = @ + 1]

\* the body of create_warm_container (lines 67-128); entry and cycled record
\* what the call found at its last entry and whether it finds the same again
WCM_Create ==
    /\ wcm.pc = "create"
    /\ LET found == <<wcm.tracked, wcm.docker>>
           w == [wcm EXCEPT !.entry = found, !.cycled = @ \/ wcm.entry = found]
       IN
       IF Len(wcm.tracked) >= MaxTracked
       THEN wcm' = Recurse(w, "get")
       ELSE \/ \E n \in WarmNames :
                 /\ n = wcm.made + 1
                 /\ wcm' = [w EXCEPT
                       !.pc = "returned", !.ret = n, !.made = n,
                       !.docker[n] = [status |-> "running", created |-> clock],
                       !.tracked = Append(@, n),
                       !.meta[n] = [present |-> TRUE, created_at |-> clock,
                                    last_used |-> clock]]
            \/ \* containers.create / start raises: cleanup and re-raise
               wcm' = [w EXCEPT !.pc = "raised"]
    /\ UNCHANGED <<poolVars, jobVars, orch, genVars>>

\* the body of get_available_container (lines 131-161)
WCM_Get ==
    /\ wcm.pc = "get"
    /\ IF Len(wcm.tracked) = 0
       THEN wcm' = Recurse(wcm, "create")
       ELSE LET r == ScanTracked(wcm.tracked, 1, wcm.meta, << >>)
                w == [wcm EXCEPT !.tracked = r.tracked, !.meta = r.meta]
            IN
            IF Len(r.available) = 0
            THEN wcm' = Recurse(w, "create")
            ELSE LET name == Oldest(r.available) IN
                 wcm' = [w EXCEPT
                           !.pc = "returned", !.ret = name,
                           !.meta[name] = IF @.present
                                          THEN [@ EXCEPT !.last_used = clock]
                                          ELSE @]
    /\ UNCHANGED <<poolVars, jobVars, orch, genVars>>

\* age_minutes > config.container_ttl_minutes (lines 345-348)
Expired(meta) == clock - meta.created_at > ContainerTtl

\* cleanup_expired_containers (lines 332-368), run by the cleanup thread;
\* failed is the set of containers whose stop or remove raises
WCM_Cleanup(failed) ==
    /\ wcm.pc # "off"
    /\ LET containers_to_remove ==
               {wcm.tracked[i] : i \in {j \in 1..Len(wcm.tracked) :
                    \/ ~wcm.meta[wcm.tracked[j]].present
                    \/ Expired(wcm.meta[wcm.tracked[j]])}}
       IN
       /\ containers_to_remove # {}
       /\ failed \subseteq {n \in containers_to_remove :
                                wcm.docker[n].status # "absent"}
       /\ wcm' = [wcm EXCEPT
              !.tracked = SelectSeq(@, LAMBDA x : x \notin containers_to_remove),
              !.meta = [n \in WarmNames |->
                           IF n \in containers_to_remove THEN NoMeta ELSE @[n]],
              !.docker = [n \in WarmNames |->
                           IF n \in containers_to_remove \ failed
                           THEN NoContainer ELSE @[n]]]
    /\ UNCHANGED <<poolVars, jobVars, orch, genVars>>

\* a warm container stops running
WCM_ContainerExit(n) ==
    /\ wcm.pc # "off"
    /\ wcm.docker[n].status = "running"
    /\ wcm' = [wcm EXCEPT !.docker[n].status = "exited"]
    /\ UNCHANGED <<poolVars, jobVars, orch, genVars>>

\* a warm container is removed from outside the manager
WCM_ContainerRemoved(n) ==
    /\ wcm.pc # "off"
    /\ wcm.docker[n].status # "absent"
    /\ wcm' = [wcm EXCEPT !.docker[n] = NoContainer]
    /\ UNCHANGED <<poolVars, jobVars, orch, genVars>>

InitWarm ==
    /\ mode = "serial"
    /\ PoolIdle
    /\ JobsIdle
    /\ OrchIdle
    /\ GenIdle
    /\ WarmConstructed

NextWarm ==
    \/ Tick
    \/ \E op \in {"create", "get"} : WCM_Call(op)
    \/ WCM_Create
    \/ WCM_Get
    \/ \E failed \in SUBSET WarmNames : WCM_Cleanup(failed)
    \/ \E n \in WarmNames : WCM_ContainerExit(n)
    \/ \E n \in WarmNames : WCM_ContainerRemoved(n)

SpecWarm == InitWarm /\ [][NextWarm]_vars

\* C24 (SpecWarm): a cleanup removes a tracked container exactly when the
\* time since it was last used exceeds container_ttl_minutes.
C24_RemovedWhenIdleBeyondTtl ==
    [][(\E failed \in SUBSET WarmNames : WCM_Cleanup(failed)) =>
        \A i \in 1..Len(wcm.tracked) :
            LET n == wcm.tracked[i] IN
            wcm.meta[n].present =>
                ((\A j \in 1..Len(wcm'.tracked) : wcm'.tracked[j] # n)
                    <=> clock - wcm.meta[n].last_used > ContainerTtl)]_vars

\* C30 (SpecWarm): a call of create_warm_container or get_available_container
\* never comes back to create_warm_container finding the tracked list and
\* the containers exactly as at its previous entry, from where it could only
\* repeat itself.
C30_CallsTerminate == wcm.pc # "off" => ~wcm.cycled

(***************************************************************************)
(* DockerOrchestrator.generate_world (bepinex-gen1): the retry loop         *)
(***************************************************************************)
\* docker_config.get("max_retries", 3)
MaxRetries == 3

\* docker_config.get("retry_delay", 10)
RetryDelay == 10

\* The GenerationResult of one attempt, by the way _execute_generation ended
\* (orchestrator.py 504-565). `config` says whether error_message contains
\* "Configuration validation failed": only the text of a raised exception
\* (error_message = str(e)) can.
AttemptResult(kind, success, timeout, config) ==
    [kind |-> kind, success |-> success, timeout |-> timeout,
     config |-> config, classified |-> "none"]

AttemptResults ==
    {AttemptResult("success", TRUE, FALSE, FALSE),
     \* the deadline passed: _wait_for_generation_with_monitoring gave (False, True)
     AttemptResult("timeout", FALSE, TRUE, FALSE),
     \* a critical-error substring in the logs: (False, False)
     AttemptResult("critical", FALSE, FALSE, FALSE),
     \* the container exited non-zero, or too many monitoring errors
     AttemptResult("not_ready", FALSE, FALSE, FALSE),
     \* ready, but a required output file is missing
     AttemptResult("missing_files", FALSE, FALSE, FALSE)}
    \cup
    \* an exception inside _execute_generation, before the wait (timeout still
    \* False) or after a wait that timed out (timeout already True)
    {AttemptResult("exception", FALSE, to, cfg) : to, cfg \in BOOLEAN}

\* the branch of lines 273-286 an attempt's result takes
Classify(r) ==
    IF r.success THEN "success"
    ELSE IF r.config THEN "configuration"
    ELSE IF r.timeout THEN "timeout"
    ELSE "retry"

\* a loop that stops retrying on configuration errors only
BreaksOnConfigurationOnly(cl) == cl = "configuration"

\* the two `break` statements (lines 280-286)
Breaks(cl) == cl \in {"configuration", "timeout"}

\* the placeholder result generate_world builds when it gives up: success
\* False, timeout left at its default
GaveUp(why) == [kind |-> why, success |-> FALSE, timeout |-> FALSE, attempt |-> None]

\* the (plan, result) of the successful attempt number i
Returned(i, r) == [kind |-> "attempt", success |-> r.success, timeout |-> r.timeout,
                   attempt |-> i]

\* how the container of an attempt was obtained: whether the warm clone was
\* tried, and what became of the fresh container
NoLaunch == [warm |-> "off", fresh |-> "none"]

\* use_warm is self.use_warm_containers as __init__ left it (lines 88-112)
OrchStart ==
    \E use_warm \in BOOLEAN :
        orch = [pc |-> "validate", attempt |-> 0, retry_delay |-> RetryDelay,
                slept |-> << >>, launched |-> 0, hist |-> << >>,
                ret |-> [kind |-> "none"], use_warm |-> use_warm,
                launch |-> NoLaunch]

\* lines 238-251
DO_Validate ==
    /\ orch.pc = "validate"
    /\ \/ orch' = [orch EXCEPT !.pc = "loop"]
       \/ \* validate_configuration() is False
          orch' = [orch EXCEPT !.pc = "done", !.ret = GaveUp("configuration")]
    /\ UNCHANGED <<poolVars, jobVars, genVars, wcm>>

\* the except clause of the loop (lines 288-299)
Unexpected(o) ==
    IF o.attempt = MaxRetries - 1
    THEN [o EXCEPT !.pc = "done", !.ret = GaveUp("last_attempt_raised")]
    ELSE [o EXCEPT !.pc = "loop", !.attempt = @ + 1]

\* a loop that sleeps the same delay before every retry
BackoffConstant(o) ==
    IF o.attempt > 0
    THEN [o EXCEPT !.slept = Append(@, o.retry_delay)]
    ELSE o

\* time.sleep(retry_delay); retry_delay *= 2 (lines 255-258)
Backoff(o) ==
    IF o.attempt > 0
    THEN [o EXCEPT !.slept = Append(@, o.retry_delay), !.retry_delay = 2 * @]
    ELSE o

\* the head of one iteration: for attempt in range(max_retries), the sleep
\* before a retry, the plan (lines 253-264); or the end of the loop (301-310)
DO_Iterate ==
    /\ orch.pc = "loop"
    /\ IF orch.attempt >= MaxRetries
       THEN orch' = [orch EXCEPT !.pc = "done", !.ret = GaveUp("exhausted")]
       ELSE \/ orch' = [Backoff(orch) EXCEPT !.pc = "exec", !.launched = @ + 1]
            \/ \* _create_generation_plan or _save_plan raises
               orch' = Unexpected(Backoff(orch))
    /\ UNCHANGED <<poolVars, jobVars, genVars, wcm>>

\* "if not used_warm_container" (lines 478-503): the container of the plan is
\* created and started, or that raises and the attempt ends in the except
\* clause of line 534 with timeout still False
LaunchFresh(o) ==
    {[o EXCEPT !.pc = "monitor", !.launch.fresh = "ok"]}
    \cup
    {[o EXCEPT !.pc = "save",
               !.launch.fresh = "raised",
               !.hist = Append(@, [launch |-> [o.launch EXCEPT !.fresh = "raised"]]
                                      @@ AttemptResult("exception", FALSE, FALSE, cfg))] :
        cfg \in BOOLEAN}

\* a warm failure that ends the attempt
WarmFailureRaises(o) ==
    {[o EXCEPT !.pc = "save",
               !.launch.warm = "failed",
               !.hist = Append(@, [launch |-> [o.launch EXCEPT !.warm = "failed"]]
                                      @@ AttemptResult("exception", FALSE, FALSE, FALSE))]}

\* the except clause of lines 473-475: the warm clone failed, warm containers
\* are switched off and the attempt goes on to the fresh container
WarmFailure(o) ==
    LaunchFresh([o EXCEPT !.use_warm = FALSE, !.launch.warm = "failed"])

\* _execute_generation up to the wait (lines 445-503).  With the manager of
\* this repository clone_container_for_job is called with keywords it does
\* not take and always raises; a manager that accepts the call may succeed
DO_Launch ==
    /\ orch.pc = "exec"
    /\ LET o == [orch EXCEPT !.launch = NoLaunch] IN
       orch' \in
           IF orch.use_warm
           THEN {[o EXCEPT !.pc = "monitor", !.launch.warm = "ok"]}
                    \cup WarmFailure(o)
           ELSE LaunchFresh(o)
    /\ UNCHANGED <<poolVars, jobVars, genVars, wcm>>

\* the rest of _execute_generation(plan, directories) (lines 505-565)
DO_Execute(r) ==
    /\ orch.pc = "monitor"
    /\ orch' = [orch EXCEPT !.pc = "save",
                            !.hist = Append(@, [launch |-> orch.launch] @@ r)]
    /\ UNCHANGED <<poolVars, jobVars, genVars, wcm>>

\* _save_logs and the examination of the result (lines 270-286)
DO_Classify ==
    /\ orch.pc = "save"
    /\ LET i == Len(orch.hist)
           r == orch.hist[i]
           cl == Classify(r)
           o == [orch EXCEPT !.hist[i].classified = cl] IN
       \/ \* _save_logs raises: the result is not looked at
          orch' = Unexpected([orch EXCEPT !.hist[i].classified = "unexpected"])
       \/ /\ cl = "success"
          /\ orch' = [o EXCEPT !.pc = "done", !.ret = Returned(i, r)]
       \/ /\ cl # "success"
          /\ Breaks(cl)
          /\ orch' = [o EXCEPT !.pc = "done", !.ret = GaveUp("exhausted")]
       \/ /\ cl # "success"
          /\ ~Breaks(cl)
          /\ orch' = [o EXCEPT !.pc = "loop", !.attempt = @ + 1]
    /\ UNCHANGED <<poolVars, jobVars, genVars, wcm>>

InitRetry ==
    /\ mode = "serial"
    /\ PoolIdle
    /\ JobsIdle
    /\ OrchStart
    /\ GenIdle
    /\ WarmIdle

NextRetry ==
    \/ DO_Validate
    \/ DO_Iterate
    \/ DO_Launch
    \/ \E r \in AttemptResults : DO_Execute(r)
    \/ DO_Classify

SpecRetry == InitRetry /\ [][NextRetry]_vars

\* C25 (SpecRetry): an attempt that did not get a warm clone, because warm
\* containers are off or because the clone failed, goes on to create the
\* fresh container of the plan; it reaches the monitoring when that container
\* starts and ends before it only when creating that container raises.
C25_WarmFailureFallsBack ==
    orch.pc # "off" =>
        /\ (orch.pc = "monitor" /\ orch.launch.warm # "ok")
               => orch.launch.fresh = "ok"
        /\ \A i \in 1..Len(orch.hist) :
              LET h == orch.hist[i] IN
              h.launch.warm # "ok" =>
                  /\ h.launch.fresh \in {"ok", "raised"}
                  /\ h.launch.fresh = "raised" => h.kind = "exception"

\* C26 (SpecRetry): at most max_retries attempts are launched, none after an
\* attempt that returned success, and the call then returns that attempt's
\* result.
C26_NoAttemptAfterSuccess ==
    orch.pc # "off" =>
        /\ orch.launched <= MaxRetries
        /\ \A i \in 1..Len(orch.hist) :
              orch.hist[i].success =>
                  /\ orch.launched = i
                  /\ orch.pc = "done" => orch.ret = Returned(i, orch.hist[i])

\* C25 witness: an attempt whose warm clone failed ran in a fresh container
\* and succeeded.
C25_Witness ==
    /\ orch.pc = "done"
    /\ \E i \in 1..Len(orch.hist) :
          /\ orch.hist[i].launch = [warm |-> "failed", fresh |-> "ok"]
          /\ orch.hist[i].kind = "success"
          /\ orch.ret.success

C11_TimeoutReachesCaller ==
    (/\ orch.pc = "done"
     /\ \E i \in 1..Len(orch.hist) : orch.hist[i].classified = "timeout")
        => orch.ret.timeout

\* C12 (SpecRetry): an attempt that the log monitor ended on a critical-error
\* substring is the last attempt launched: once its result was examined,
\* generate_world has returned.
C12_CriticalErrorEndsJob ==
    orch.pc # "off" =>
        \A i \in 1..Len(orch.hist) :
            (orch.hist[i].kind = "critical" /\ orch.hist[i].classified # "none") =>
                /\ i = orch.launched
                /\ orch.pc = "done"

\* C19 (SpecRetry): nothing is slept before the first iteration of the loop,
\* and the k-th sleep (before retry k - 1) lasts retry_delay * 2^(k-1).
C19_ExponentialBackoff ==
    orch.pc # "off" =>
        /\ \A k \in 1..Len(orch.slept) : orch.slept[k] = RetryDelay * 2^(k - 1)
        /\ orch.pc \in {"exec", "monitor", "save"} => Len(orch.slept) = orch.attempt

\* C19 witness: generate_world returned after its last retry, having slept
\* before each of the MaxRetries - 1 retries.
C19_Witness ==
    /\ orch.pc = "done"
    /\ Len(orch.slept) = MaxRetries - 1
    /\ orch.launched = MaxRetries

(***************************************************************************)
(* Specifications of the pool manager                                      *)
(***************************************************************************)
\* a manager constructed over a Docker daemon that runs no warm engine
Init == mode = "serial" /\ PoolIdle /\ JobsIdle /\ OrchIdle /\ GenIdle /\ WarmIdle

Next ==
    \/ \E c \in Callers :
        \/ \E e \in EngineIds : CW_Begin(c, e)
        \/ CW_DockerCreate(c)
        \/ CW_Wait(c)
        \/ GW_BeginAuto(c)
        \/ \E e \in EngineIds : GW_BeginExplicit(c, e)
        \/ GW_Check(c)
        \/ GW_Mark(c)
        \/ GW_Restart(c)
        \/ GW_Wait(c)
        \/ GW_Extract(c)
        \/ RS_Reset(c)
        \/ Ack(c)
    \/ \E e \in EngineIds : ShutdownEngine(e)
    \/ Construct

Spec == Init /\ [][Next]_vars

\* Two threads each call generate_world(engine_id=None) once, on a manager
\* constructed over a daemon that already runs some warm engines.
InitConc ==
    /\ mode = "conc"
    /\ containers \in [EngineIds -> {"absent", "stopped", "running"}]
    /\ LET running == {e \in EngineIds : containers[e] = "running"} IN
       \E created \in CreatedLabels(running) :
          engines = Discovered(running, created)
    /\ th = [c \in Callers |-> IdleThread]
    /\ JobsIdle
    /\ OrchIdle
    /\ GenIdle
    /\ WarmIdle

NextConc ==
    \E c \in Callers :
        \/ GW_BeginAuto(c)
        \/ CW_DockerCreate(c)
        \/ CW_Wait(c)
        \/ GW_Check(c)
        \/ GW_Mark(c)
        \/ GW_Restart(c)
        \/ GW_Wait(c)
        \/ GW_Extract(c)
        \/ RS_Reset(c)

SpecConc == InitConc /\ [][NextConc]_vars

(***************************************************************************)
(* Properties of the pool manager                                          *)
(***************************************************************************)
\* the caller passed the READY check and set the engine GENERATING, and its
\* job has not ended yet
Holding(c) == th[c].pc \in {"gw_restart", "gw_wait", "gw_extract", "rs_reset"}

\* no call of the manager is in progress
NoCallRunning == \A c \in Callers : th[c].pc \in {"idle", "returned", "raised"}

\* a step of a create_warm_engine / generate_world / _reset_engine call: each
\* of them moves the caller's position (shutdown_engine and the construction
\* of a new manager do not)
PoolCallStep == th' # th

\* C1 (SpecConc): two concurrent generate_world calls without engine_id never
\* hold the same engine at the same instant.
C1_NoEngineHeldByTwoJobs ==
    \A c, d \in Callers :
        (c # d /\ Holding(c) /\ Holding(d)) => th[c].eid # th[d].eid

\* C2 (Spec): in every reachable state the number of registered engines whose
\* state is not ERROR is at most max_warm_containers.
C2_LiveEnginesWithinMax ==
    Cardinality(ActiveEngines(engines)) <= MaxWarmContainers

LifecycleTransitions ==
    {<<"STARTING", "READY">>, <<"READY", "GENERATING">>,
     <<"GENERATING", "EXPORTING">>, <<"EXPORTING", "READY">>,
     <<"EXPORTING", "RESETTING">>, <<"RESETTING", "READY">>}

\* C3 (Spec): every change of a registered engine's state made by
\* create_warm_engine, generate_world and _reset_engine is a lifecycle
\* transition or a transition into ERROR; no engine leaves ERROR and no
\* registered engine goes back to STARTING.
C3_OnlyLifecycleTransitions ==
    [][PoolCallStep =>
        \A e \in DOMAIN engines \cap DOMAIN engines' :
            LET a == engines[e].state
                b == engines'[e].state IN
            a # b => /\ a # "ERROR"
                     /\ b = "ERROR" \/ <<a, b>> \in LifecycleTransitions]_vars

\* C4 (Spec): when a job completes and brings jobs_processed to
\* max_jobs_per_engine, the engine leaves EXPORTING for RESETTING, and an
\* engine with that many jobs becomes READY only from RESETTING.
C4_ResetBeforeReady ==
    [][PoolCallStep =>
        \A e \in DOMAIN engines \cap DOMAIN engines' :
            LET a == engines[e]
                b == engines'[e] IN
            /\ (/\ a.state = "EXPORTING"
                /\ b.state # "EXPORTING"
                /\ b.jobs_processed = a.jobs_processed + 1
                /\ b.jobs_processed >= MaxJobsPerEngine)
                   => b.state = "RESETTING"
            /\ (/\ a.state # "READY"
                /\ b.state = "READY"
                /\ a.jobs_processed >= MaxJobsPerEngine)
                   => a.state = "RESETTING"]_vars

\* C4 witness: an engine is RESETTING after its last allowed job.
C4_Witness ==
    \E e \in DOMAIN engines :
        /\ engines[e].state = "RESETTING"
        /\ engines[e].jobs_processed = MaxJobsPerEngine

\* C5 (Spec): whenever generate_world returns success = True, the engine it
\* ran on is READY with current_job_id and current_seed cleared.
C5_SuccessLeavesEngineReady ==
    \A c \in Callers :
        (th[c].op = "generate" /\ th[c].pc = "returned") =>
            /\ th[c].eid \in DOMAIN engines
            /\ engines[th[c].eid].state = "READY"
            /\ engines[th[c].eid].current_job_id = None
            /\ engines[th[c].eid].current_seed = None

\* C6 (Spec): if a step of the job fails (restart, wait for generation,
\* extraction, or the reset that follows), then when the call ends the engine
\* is ERROR, the caller got the exception, and the call made at most one
\* restart and one generation attempt.
C6_FailureMarksErrorAndPropagates ==
    \A c \in Callers :
        (/\ th[c].op = "generate"
         /\ th[c].pc \in {"returned", "raised"}
         /\ th[c].fail \in {"restart", "wait", "extract", "reset"}) =>
            /\ engines[th[c].eid].state = "ERROR"
            /\ th[c].pc = "raised"
            /\ th[c].restarts <= 1
            /\ th[c].gens <= 1

\* C16 (Spec): a step of _get_available_engine taken while some engine is
\* READY selects a READY engine of minimal last_used and changes neither the
\* registry nor the containers; it enters create_warm_engine only when no
\* engine is READY.
C16_LeastRecentlyUsedReady ==
    [][\A c \in Callers :
        GW_BeginAuto(c) =>
            IF ReadyEngines(engines) # {}
            THEN /\ th'[c].pc = "gw_check"
                 /\ th'[c].eid \in ReadyEngines(engines)
                 /\ \A f \in ReadyEngines(engines) :
                       engines[th'[c].eid].last_used <= engines[f].last_used
                 /\ engines' = engines
                 /\ containers' = containers
            ELSE \/ th'[c].pc = "cw_create"
                 \/ AtCapacity(engines)]_vars

\* C16 witness: generate_world was handed the least recently used of several
\* READY engines.
C16_Witness ==
    /\ th[1].op = "generate"
    /\ th[1].pc = "gw_check"
    /\ Cardinality(ReadyEngines(engines)) >= 2
    /\ th[1].eid \in ReadyEngines(engines)
    /\ \A f \in ReadyEngines(engines) :
          engines[th[1].eid].last_used <= engines[f].last_used

\* a step in which create_warm_engine is entered by caller c, directly or
\* from _get_available_engine
CreateCalled(c) ==
    \/ \E e \in EngineIds : CW_Begin(c, e)
    \/ GW_BeginAuto(c) /\ ReadyEngines(engines) = {}

\* a step in which create_warm_engine returns an engine id to caller c
CreateReturned(c) ==
    /\ CreateCalled(c) \/ CW_Wait(c)
    /\ th'[c].pc = AfterCreate(th'[c].op)

\* C17 (Spec): create_warm_engine called with max_warm_containers non-ERROR
\* engines registered creates no container, leaves the registry as it is and
\* returns the non-ERROR engine of minimal last_used.
C17_AtCapacityReturnsLeastRecentlyUsed ==
    [][\A c \in Callers :
        (CreateCalled(c) /\ Cardinality(ActiveEngines(engines)) >= MaxWarmContainers) =>
            /\ engines' = engines
            /\ containers' = containers
            /\ th'[c].pc = AfterCreate(th'[c].op)
            /\ th'[c].eid \in ActiveEngines(engines)
            /\ \A f \in ActiveEngines(engines) :
                  engines[th'[c].eid].last_used <= engines[f].last_used]_vars

\* C17 witness: create_warm_engine returned the least recently used of the
\* engines of a full pool.
C17_Witness ==
    /\ th[1].op = "create"
    /\ th[1].pc = "returned"
    /\ MaxWarmContainers >= 2
    /\ Cardinality(ActiveEngines(engines)) >= MaxWarmContainers
    /\ th[1].eid \in ActiveEngines(engines)
    /\ \A f \in ActiveEngines(engines) :
          engines[th[1].eid].last_used <= engines[f].last_used

\* C18 (SpecConc): whenever create_warm_engine returns an engine id, that
\* engine is registered and READY.
C18_CreatedEngineIsReady ==
    [][\A c \in Callers :
        CreateReturned(c) =>
            /\ th'[c].eid \in DOMAIN engines'
            /\ engines'[th'[c].eid].state = "READY"]_vars

\* C27: a READY engine has processed fewer than max_jobs_per_engine jobs
\* since its last reset and carries no job id and no seed, and no engine has
\* processed more than max_jobs_per_engine.
C27_ReadyEngineIsClean ==
    \A e \in DOMAIN engines :
        /\ engines[e].jobs_processed <= MaxJobsPerEngine
        /\ engines[e].state = "READY" =>
              /\ engines[e].jobs_processed < MaxJobsPerEngine
              /\ engines[e].current_job_id = None
              /\ engines[e].current_seed = None

\* C28 (Spec): a create_warm_engine call that raises leaves every engine that
\* was registered before the call as it was; only the engine the call itself
\* registered (lines 147-154) may become ERROR.
C28_FailedCreateTouchesOnlyItsEngine ==
    [][\A c \in Callers :
        /\ th[c].pc \in {"cw_create", "cw_wait"}
        /\ th'[c].pc = "raised"
        => \A x \in DOMAIN engines :
              \/ th[c].pc = "cw_wait" /\ x = th[c].eid
              \/ x \in DOMAIN engines' /\ engines'[x] = engines[x]]_vars

C7_ErrorEngineRemoved ==
    NoCallRunning => \A e \in DOMAIN engines : engines[e].state # "ERROR"

====
